---- MODULE Spec2Model ----
(***************************************************************************)
(* Notification dispatch pipeline of                                       *)
(*   src/Design problems/03. Notification Service/notification_service.py  *)
(* Content and its decorators, the NotificationCenter (observable hub),    *)
(* the NotificationLogger and NotificationEngine observers, the delivery   *)
(* strategies and the NotificationService singleton.                       *)
(*                                                                         *)
(* Every public call is one action. A call runs to completion or to the    *)
(* first exception (the source has no try/except), and leaves in `out` the *)
(* events it produced and in `err` how it ended.                           *)
(*                                                                         *)
(* Spec           the pipeline of a service constructed once               *)
(* SpecLifecycle  the service constructed again and again                  *)
(* SpecContent    notification objects built and read on their own         *)
(* SpecConcurrent one hub called from several threads, where a call is     *)
(*                a sequence of list operations that interleave            *)
(* SpecReentrant  observers that call the hub back while it notifies them  *)
(* SpecShared     observers attached to a hub other than their own         *)
(***************************************************************************)
EXTENDS Integers, Sequences, FiniteSets, TLC

\* ---------------------------------------------------------------- bounds
MaxHubs == 2          \* NotificationService() calls, each of which builds a hub
MaxChannels == 3      \* strategies added to one engine
MaxSubmit == 2        \* send_notification calls
MaxDecos == 2         \* decorators wrapped around one notification
MaxReads == 2         \* get_content calls on one notification
MaxClock == 2         \* last value of the clock while one notification is read
MaxThreads == 2       \* threads calling attach on one hub at the same time

\* ---------------------------------------------------------------- values
None == 0

\* `if not cls._instance`: an object is truthy, None is not
Truthy(x) == x # None

\* SimpleNotification(text): a chain with no decorator
SimpleNotification(text) == [msg |-> text, decos |-> <<>>]

\* A decorator constructed around `n`: the chain, innermost decorator first
NotificationDecorator(n) == [n EXCEPT !.decos = Append(@, "plain")]

TimeStampDecorator(n) == [n EXCEPT !.decos = Append(@, "timestamp")]

\* A SignatureDecorator whose constructor writes into the notification it wraps
SignatureDecorator_marking(n) ==
    [msg |-> "signed", decos |-> Append(n.decos, "signature")]

SignatureDecorator(n) == [n EXCEPT !.decos = Append(@, "signature")]

\* The hub's _notification attribute before the first set_notification:
\* __init__ only annotates it, so the attribute does not exist
Unset == [msg |-> "<unset>", decos |-> <<>>]

\* The notifications the client builds: one that reads the same at every
\* call, and one that reads the clock (lines 215-221 build the second shape)
Contents ==
    { SignatureDecorator(SimpleNotification("a")),
      SignatureDecorator(TimeStampDecorator(SimpleNotification("b"))) }

\* Delivery strategies the client registers: the printing ones of the source
\* never raise; "failing" is an implementation of the abstract
\* NotificationStrategy whose send_notification raises
Strategies == { "email", "failing" }

Raises(ns) == ns = "failing"

\* get_content with a SignatureDecorator that stamps the time into its signature
RECURSIVE get_content_dated_signature(_, _, _, _)
get_content_dated_signature(n, k, clk, dt) ==
    IF k = 0 THEN [text |-> <<n.msg>>, clk |-> clk, calls |-> <<0>>]
    ELSE IF n.decos[k] \in {"timestamp", "signature"}
         THEN LET timestamp == clk + dt
                  inner == get_content_dated_signature(n, k - 1, timestamp, dt)
              IN  IF n.decos[k] = "timestamp"
                  THEN [text |-> <<"<< ", ToString(timestamp), " :: ">> \o inner.text,
                        clk |-> inner.clk, calls |-> <<k>> \o inner.calls]
                  ELSE [text |-> inner.text \o <<" :: ", "signed_by: Notification Service",
                                                 ToString(timestamp), " >>">>,
                        clk |-> inner.clk, calls |-> <<k>> \o inner.calls]
    ELSE LET inner == get_content_dated_signature(n, k - 1, clk, dt)
         IN  [inner EXCEPT !.calls = <<k>> \o @]

\* get_content with decorators that annotate the text of the innermost
\* notification instead of what the notification they wrap returns
get_content_outermost_only(n, k, clk, dt) ==
    LET inner == [text |-> <<n.msg>>, clk |-> clk + dt]
    IN  IF k = 0 THEN [text |-> <<n.msg>>, clk |-> clk, calls |-> <<0>>]
        ELSE IF n.decos[k] = "timestamp"
             THEN [text |-> <<"<< ", ToString(clk + dt), " :: ">> \o inner.text,
                   clk |-> inner.clk, calls |-> <<k, 0>>]
        ELSE IF n.decos[k] = "signature"
             THEN [text |-> inner.text \o <<" :: ", "signed_by: Notification Service", " >>">>,
                   clk |-> clk, calls |-> <<k, 0>>]
        ELSE [text |-> inner.text, clk |-> clk, calls |-> <<k, 0>>]

\* get_content with a SignatureDecorator that reads what it wraps twice, once
\* to test it and once to format it
RECURSIVE get_content_read_twice(_, _, _, _)
get_content_read_twice(n, k, clk, dt) ==
    IF k = 0 THEN [text |-> <<n.msg>>, clk |-> clk, calls |-> <<0>>]
    ELSE IF n.decos[k] = "timestamp"
         THEN LET timestamp == clk + dt
                  inner == get_content_read_twice(n, k - 1, timestamp, dt)
              IN  [text |-> <<"<< ", ToString(timestamp), " :: ">> \o inner.text,
                   clk |-> inner.clk, calls |-> <<k>> \o inner.calls]
    ELSE IF n.decos[k] = "signature"
         THEN LET tested == get_content_read_twice(n, k - 1, clk, dt)
                  inner == get_content_read_twice(n, k - 1, tested.clk, dt)
              IN  [text |-> inner.text \o <<" :: ", "signed_by: Notification Service", " >>">>,
                   clk |-> inner.clk, calls |-> <<k>> \o tested.calls \o inner.calls]
    ELSE LET inner == get_content_read_twice(n, k - 1, clk, dt)
         IN  [inner EXCEPT !.calls = <<k>> \o @]

\* get_content with a TimeStampDecorator that keeps the time it was made at
\* (the start of the clock) and reads no clock afterwards
RECURSIVE get_content_cached_timestamp(_, _, _, _)
get_content_cached_timestamp(n, k, clk, dt) ==
    IF k = 0 THEN [text |-> <<n.msg>>, clk |-> clk, calls |-> <<0>>]
    ELSE IF n.decos[k] = "timestamp"
         THEN LET inner == get_content_cached_timestamp(n, k - 1, clk, dt)
              IN  [text |-> <<"<< ", ToString(0), " :: ">> \o inner.text,
                   clk |-> inner.clk, calls |-> <<k>> \o inner.calls]
    ELSE IF n.decos[k] = "signature"
         THEN LET inner == get_content_cached_timestamp(n, k - 1, clk, dt)
              IN  [text |-> inner.text \o <<" :: ", "signed_by: Notification Service", " >>">>,
                   clk |-> inner.clk, calls |-> <<k>> \o inner.calls]
    ELSE LET inner == get_content_cached_timestamp(n, k - 1, clk, dt)
         IN  [inner EXCEPT !.calls = <<k>> \o @]

\* get_content of the outermost `k` decorators of chain `n`, that is of the
\* object at level k of the chain (level 0 is the SimpleNotification). Time is
\* counted from the start of the running call: `clk` is the clock now, and it
\* advances by `dt` before each datetime.now(). A string is the sequence of
\* its pieces. Returns the text, the clock afterwards, and the levels whose
\* get_content ran, in the order they were entered.
RECURSIVE get_content(_, _, _, _)
get_content(n, k, clk, dt) ==
    IF k = 0 THEN [text |-> <<n.msg>>, clk |-> clk, calls |-> <<0>>]
    ELSE IF n.decos[k] = "timestamp"
         THEN LET timestamp == clk + dt
                  inner == get_content(n, k - 1, timestamp, dt)
              IN  [text |-> <<"<< ", ToString(timestamp), " :: ">> \o inner.text,
                   clk |-> inner.clk, calls |-> <<k>> \o inner.calls]
    ELSE IF n.decos[k] = "signature"
         THEN LET inner == get_content(n, k - 1, clk, dt)
              IN  [text |-> inner.text \o <<" :: ", "signed_by: Notification Service", " >>">>,
                   clk |-> inner.clk, calls |-> <<k>> \o inner.calls]
    ELSE LET inner == get_content(n, k - 1, clk, dt)
         IN  [inner EXCEPT !.calls = <<k>> \o @]

VARIABLES
    instance,             \* NotificationService._instance (None or the object)
    allocated,            \* NotificationService objects made by object.__new__
    notification_list,    \* the instance's _notification_list
    notification_center,  \* the instance's _notification_center (index in centers)
    centers,              \* the NotificationCenter objects, in creation order
    reactors,             \* the observer objects, in creation order
    call,                 \* the last call, when it notified: its name, the hub
                          \* it ran on, the notification it was given
    err,                  \* how the last call ended: "ok" or the exception
    out,                  \* the events of the last call
    refs,                 \* what each NotificationService() returned
    submitted,            \* the argument of each send_notification call
    dup,                  \* <<hub, reactor>> attached again while attached
    direct,               \* the service's hub got its notification from a
                          \* set_notification call made on the hub itself
    attached,             \* per hub, the reactors now attached, in the order
                          \* of the attach call that last added each of them
    detached,             \* the pairs <<hub, reactor>> detached and not
                          \* attached since
    node,                 \* a notification object built and read on its own
    reads,                \* what each get_content call on node returned, with
                          \* the clock at the call, its pace, and the objects
                          \* of the chain whose get_content it entered
    now,                  \* the clock while node is read
    iter,                 \* position of the list iterator of a notify loop
                          \* that is running while other threads call the
                          \* hub (0: no loop is running)
    att                   \* per calling thread, the observer whose membership
                          \* test in attach has passed and whose append is
                          \* still to come (None: no attach under way)

pipeVars == <<instance, allocated, notification_list, notification_center, centers,
              reactors, call, err, out, refs, submitted, dup, direct,
              attached, detached>>

contentVars == <<node, reads, now>>

threadVars == <<iter, att>>

Threads == 1..MaxThreads

vars == <<pipeVars, contentVars, threadVars>>

\* ------------------------------------------------------- the running call
\* The mutable program state while one public call runs
Machine ==
    [centers |-> centers, list |-> notification_list, clk |-> 0,
     out |-> <<>>, err |-> "ok", val |-> <<>>]

Ev(kind, who, ns, text) == [ev |-> kind, who |-> who, ns |-> ns, text |-> text]

Range(s) == { s[i] : i \in DOMAIN s }

\* attach without its membership test
attach_unchecked(obs, observer) == Append(obs, observer)

\* attach putting a new observer in front of the others
attach_at_head(obs, observer) ==
    IF observer \notin Range(obs) THEN <<observer>> \o obs ELSE obs

\* NotificationCenter.attach on the list `obs`
attach(obs, observer) ==
    IF observer \notin Range(obs) THEN Append(obs, observer) ELSE obs

\* detach dropping the last observer of the list, whichever it is
detach_last(obs, observer) == SubSeq(obs, 1, Len(obs) - 1)

\* list.remove(x): drops the first occurrence (the caller has checked there is one)
detach(obs, observer) ==
    LET first == CHOOSE i \in DOMAIN obs :
                     obs[i] = observer /\ \A j \in 1..(i - 1) : obs[j] # observer
    IN  SubSeq(obs, 1, first - 1) \o SubSeq(obs, first + 1, Len(obs))

\* get_notification that hands the notification out once: the attribute is
\* gone after the read
get_notification_consuming(m, h, dt) ==
    IF m.centers[h].notification = Unset
    THEN [m EXCEPT !.err = "AttributeError"]
    ELSE LET n == m.centers[h].notification
             got == get_content(n, Len(n.decos), m.clk, dt)
         IN  [m EXCEPT !.clk = got.clk, !.val = got.text,
                       !.centers[h].notification = Unset]

\* get_notification of a hub whose __init__ set _notification to None and
\* which answers with an empty text as long as nothing was set
get_notification_lenient(m, h, dt) ==
    IF m.centers[h].notification = Unset
    THEN [m EXCEPT !.val = <<>>]
    ELSE LET n == m.centers[h].notification
             got == get_content(n, Len(n.decos), m.clk, dt)
         IN  [m EXCEPT !.clk = got.clk, !.val = got.text]

\* NotificationCenter.get_notification: the text in val, or AttributeError
get_notification(m, h, dt) ==
    IF m.centers[h].notification = Unset
    THEN [m EXCEPT !.err = "AttributeError"]
    ELSE LET n == m.centers[h].notification
             got == get_content(n, Len(n.decos), m.clk, dt)
         IN  [m EXCEPT !.clk = got.clk, !.val = got.text]

\* NotificationLogger.update printing what the hub it is attached to holds
NotificationLogger_update_of_host(m, r, dt) ==
    LET hosts == { h \in DOMAIN m.centers : r \in Range(m.centers[h].observers) }
        host == CHOOSE h \in hosts : \A g \in hosts : g <= h
        got == get_notification(m, host, dt)
    IN  IF got.err # "ok" THEN got
        ELSE [got EXCEPT !.out = @ \o <<Ev("read", r, "-", got.val),
                                        Ev("log", r, "-", got.val)>>]

\* NotificationLogger.update printing the text of the innermost notification,
\* without the annotations of its decorators
NotificationLogger_update_raw(m, r, dt) ==
    LET got == get_notification(m, reactors[r].notification_center, dt)
        raw == <<m.centers[reactors[r].notification_center].notification.msg>>
    IN  IF got.err # "ok" THEN got
        ELSE [got EXCEPT !.out = @ \o <<Ev("read", r, "-", got.val),
                                        Ev("log", r, "-", raw)>>]

\* NotificationLogger.update: print what its own center holds
NotificationLogger_update(m, r, dt) ==
    LET got == get_notification(m, reactors[r].notification_center, dt)
    IN  IF got.err # "ok" THEN got
        ELSE [got EXCEPT !.out = @ \o <<Ev("read", r, "-", got.val),
                                        Ev("log", r, "-", got.val)>>]

\* NotificationEngine.update from the i-th strategy on: for each strategy,
\* read the center's text, then hand it to the strategy
RECURSIVE NotificationEngine_update(_, _, _, _)
NotificationEngine_update(m, r, i, dt) ==
    IF i > Len(reactors[r].notification_strategies) THEN m
    ELSE LET ns == reactors[r].notification_strategies[i]
             got == get_notification(m, reactors[r].notification_center, dt)
             msg == got.val
         IN  IF got.err # "ok" THEN got
             ELSE IF Raises(ns)
                  THEN [got EXCEPT !.out = @ \o <<Ev("read", r, "-", msg),
                                                  Ev("fail", r, ns, msg)>>,
                                   !.err = "DeliveryFailure"]
             ELSE NotificationEngine_update(
                      [got EXCEPT !.out = @ \o <<Ev("read", r, "-", msg),
                                                 Ev("deliver", r, ns, msg)>>],
                      r, i + 1, dt)

RECURSIVE set_notification(_, _, _, _)

\* update of an observer written by a client of the NotificationObserver
\* interface, which calls back into the hub it was constructed on:
\*   "leaver"    self.notification_center.detach(self)
\*   "inviter"   self.notification_center.attach(self.guest)
\*   "resetter"  self.notification_center.set_notification(self.resets_to),
\*               unless the hub holds that notification already
ClientObserver_update(m, r, dt) ==
    LET h == reactors[r].notification_center
        obs == m.centers[h].observers
    IN  CASE reactors[r].kind = "leaver" ->
                 IF r \in Range(obs)
                 THEN [m EXCEPT !.centers[h].observers = detach(@, r)]
                 ELSE [m EXCEPT !.err = "ValueError"]
          [] reactors[r].kind = "inviter" ->
                 [m EXCEPT !.centers[h].observers = attach(@, reactors[r].guest)]
          [] reactors[r].kind = "resetter" ->
                 IF m.centers[h].notification = reactors[r].resets_to THEN m
                 ELSE set_notification(m, h, reactors[r].resets_to, dt)

\* ob.update() of reactor r, bracketed by its invocation and its end
update(m, r, dt) ==
    LET entered == [m EXCEPT !.out = Append(@, Ev("update", r, "-", <<>>))]
        done == IF reactors[r].kind = "logger"
                THEN NotificationLogger_update(entered, r, dt)
                ELSE IF reactors[r].kind = "engine"
                THEN NotificationEngine_update(entered, r, 1, dt)
                ELSE ClientObserver_update(entered, r, dt)
    IN  [done EXCEPT !.out = Append(@, Ev(IF done.err = "ok" THEN "return" ELSE "raise",
                                          r, "-", <<>>))]

\* notify returning after the first observer
notify_first_only(m, h, i, dt) ==
    IF i > Len(m.centers[h].observers) \/ i > 1 THEN m
    ELSE update(m, m.centers[h].observers[i], dt)

\* notify walking the observer list from its end
RECURSIVE notify_backwards(_, _, _, _)
notify_backwards(m, h, i, dt) ==
    LET obs == m.centers[h].observers
    IN  IF i > Len(obs) THEN m
        ELSE LET after == update(m, obs[Len(obs) - i + 1], dt)
             IN  IF after.err # "ok" THEN after ELSE notify_backwards(after, h, i + 1, dt)

\* notify walking a copy of the observer list taken when it starts
RECURSIVE walk_copy(_, _, _, _)
walk_copy(m, copy, i, dt) ==
    IF i > Len(copy) THEN m
    ELSE LET after == update(m, copy[i], dt)
         IN  IF after.err # "ok" THEN after ELSE walk_copy(after, copy, i + 1, dt)

notify_copy(m, h, i, dt) == walk_copy(m, m.centers[h].observers, i, dt)

\* notify as `for i in range(len(self._observers))`: the number of turns is
\* fixed when the loop starts
RECURSIVE walk_counted(_, _, _, _, _)
walk_counted(m, h, i, turns, dt) ==
    IF i > turns THEN m
    ELSE IF i > Len(m.centers[h].observers) THEN [m EXCEPT !.err = "IndexError"]
    ELSE LET after == update(m, m.centers[h].observers[i], dt)
         IN  IF after.err # "ok" THEN after ELSE walk_counted(after, h, i + 1, turns, dt)

notify_counted(m, h, i, dt) == walk_counted(m, h, i, Len(m.centers[h].observers), dt)

\* NotificationCenter.notify from position i of the observer list: the list
\* iterator reads the live list by index; an exception ends the loop
RECURSIVE notify(_, _, _, _)
notify(m, h, i, dt) ==
    IF i > Len(m.centers[h].observers) THEN m
    ELSE LET after == update(m, m.centers[h].observers[i], dt)
         IN  IF after.err # "ok" THEN after ELSE notify(after, h, i + 1, dt)

\* set_notification that stores and leaves the notifying to its caller
set_notification_store_only(m, h, n, dt) ==
    [m EXCEPT !.centers[h].notification = n]

\* set_notification that runs notify first and stores afterwards
set_notification_notify_first(m, h, n, dt) ==
    LET told == notify(m, h, 1, dt)
    IN  IF told.err = "ok" THEN [told EXCEPT !.centers[h].notification = n] ELSE told

\* NotificationCenter.set_notification
set_notification(m, h, n, dt) ==
    notify([m EXCEPT !.centers[h].notification = n], h, 1, dt)

\* send_notification putting the new entry at the head of the list
send_notification_at_head(m, h, n, dt) ==
    set_notification([m EXCEPT !.list = <<n>> \o @], h, n, dt)

\* send_notification recording the entry after the hub was told, so that an
\* exception of the fan-out skips it
send_notification_record_last(m, h, n, dt) ==
    LET told == set_notification(m, h, n, dt)
    IN  IF told.err = "ok" THEN [told EXCEPT !.list = Append(@, n)] ELSE told

\* send_notification that never records
send_notification_unrecorded(m, h, n, dt) == set_notification(m, h, n, dt)

\* NotificationService.send_notification
send_notification(m, h, n, dt) ==
    set_notification([m EXCEPT !.list = Append(@, n)], h, n, dt)

\* __new__ without the test of _instance
NotificationService_new_always(cur, fresh) == fresh

\* NotificationService.__new__: the object the constructor call works on
NotificationService_new(cur, fresh) ==
    IF ~Truthy(cur) THEN fresh ELSE cur

\* ---------------------------------------------------------------- state
\* After a call that notifies nobody (a constructor, attach, detach, add)
NoCall == [op |-> "-", hub |-> 0, n |-> Unset, before |-> <<>>]

\* NotificationCenter(): no observer, and no _notification attribute yet
NotificationCenter == [observers |-> <<>>, notification |-> Unset]

\* NotificationLogger(center)
NotificationLogger(h) ==
    [kind |-> "logger", notification_center |-> h, notification_strategies |-> <<>>]

\* NotificationEngine(center)
NotificationEngine(h) ==
    [kind |-> "engine", notification_center |-> h, notification_strategies |-> <<>>]

\* The program after lines 194-203: the first NotificationService() (__new__
\* found _instance None and made the object, __init__ gave it its list and its
\* hub), then a logger and an engine constructed on that hub, nothing attached
\* and no strategy added yet
Init ==
    /\ instance = NotificationService_new(None, 1)
    /\ allocated = 1
    /\ notification_list = <<>>
    /\ notification_center = 1
    /\ centers = <<NotificationCenter>>
    /\ reactors = <<NotificationLogger(1), NotificationEngine(1)>>
    /\ call = NoCall
    /\ err = "ok"
    /\ out = <<>>
    /\ refs = <<instance>>
    /\ submitted = <<>>
    /\ dup = {}
    /\ direct = FALSE
    /\ attached = <<(<<>>)>>
    /\ detached = {}
    /\ node = Unset
    /\ reads = <<>>
    /\ now = 0
    /\ iter = 0
    /\ att = [t \in Threads |-> None]

Hubs == 1..Len(centers)

Reactors == 1..Len(reactors)

\* The sequence s without the value x
Without(s, x) ==
    LET other(y) == y # x
    IN  SelectSeq(s, other)

\* The end of a call that ran on machine m
Commit(m) ==
    /\ centers' = m.centers
    /\ notification_list' = m.list
    /\ out' = m.out
    /\ err' = m.err

\* ---------------------------------------------------------------- actions
\* NotificationService() once more: __new__, then __init__ on what it returned
Construct ==
    /\ Len(centers) < MaxHubs
    /\ LET self == NotificationService_new(instance, allocated + 1)
       IN  /\ instance' = self
           /\ allocated' = IF self = instance THEN allocated ELSE allocated + 1
           /\ refs' = Append(refs, self)
    /\ notification_list' = <<>>
    /\ centers' = Append(centers, NotificationCenter)
    /\ attached' = Append(attached, <<>>)
    /\ notification_center' = Len(centers) + 1
    /\ direct' = FALSE
    /\ call' = NoCall
    /\ err' = "ok"
    /\ out' = <<>>
    /\ UNCHANGED contentVars
    /\ UNCHANGED threadVars
    /\ UNCHANGED <<reactors, submitted, dup,
                   detached>>

\* add_notification_strategy that keeps one entry per strategy
AddNotificationStrategy_unique(r, ns) ==
    /\ reactors[r].kind = "engine"
    /\ Len(reactors[r].notification_strategies) < MaxChannels
    /\ reactors' = IF ns \in Range(reactors[r].notification_strategies) THEN reactors
                   ELSE [reactors EXCEPT ![r].notification_strategies = Append(@, ns)]
    /\ call' = NoCall
    /\ err' = "ok"
    /\ out' = <<>>
    /\ UNCHANGED contentVars
    /\ UNCHANGED threadVars
    /\ UNCHANGED <<instance, allocated, notification_list, notification_center,
                   centers, refs, submitted, dup, direct,
                   attached, detached>>

\* engine.add_notification_strategy(ns)
AddNotificationStrategy(r, ns) ==
    /\ reactors[r].kind = "engine"
    /\ Len(reactors[r].notification_strategies) < MaxChannels
    /\ reactors' = [reactors EXCEPT ![r].notification_strategies = Append(@, ns)]
    /\ call' = NoCall
    /\ err' = "ok"
    /\ out' = <<>>
    /\ UNCHANGED contentVars
    /\ UNCHANGED threadVars
    /\ UNCHANGED <<instance, allocated, notification_list, notification_center,
                   centers, refs, submitted, dup, direct,
                   attached, detached>>

\* center.attach(observer)
Attach(h, r) ==
    /\ centers' = [centers EXCEPT ![h].observers = attach(@, r)]
    /\ dup' = IF r \in Range(centers[h].observers) THEN dup \cup {<<h, r>>} ELSE dup
    /\ attached' = IF r \in Range(centers[h].observers) THEN attached
                   ELSE [attached EXCEPT ![h] = Append(Without(@, r), r)]
    /\ detached' = detached \ {<<h, r>>}
    /\ call' = NoCall
    /\ err' = "ok"
    /\ out' = <<>>
    /\ UNCHANGED contentVars
    /\ UNCHANGED threadVars
    /\ UNCHANGED <<instance, allocated, notification_list, notification_center,
                   reactors, refs, submitted, direct>>

\* center.detach(observer) that, finding the observer absent, drops the last
\* observer of the list before it raises
Detach_drops_last(h, r) ==
    /\ IF r \in Range(centers[h].observers)
       THEN /\ centers' = [centers EXCEPT ![h].observers = detach(@, r)]
            /\ dup' = dup \ {<<h, r>>}
            /\ attached' = [attached EXCEPT ![h] = Without(@, r)]
            /\ detached' = detached \cup {<<h, r>>}
            /\ err' = "ok"
       ELSE /\ centers' = [centers EXCEPT ![h].observers = SubSeq(@, 1, Len(@) - 1)]
            /\ err' = "ValueError"
            /\ UNCHANGED <<dup, attached, detached>>
    /\ call' = NoCall
    /\ out' = <<>>
    /\ UNCHANGED contentVars
    /\ UNCHANGED threadVars
    /\ UNCHANGED <<instance, allocated, notification_list, notification_center,
                   reactors, refs, submitted, direct>>

\* center.detach(observer): list.remove raises ValueError when it is absent
Detach(h, r) ==
    /\ IF r \in Range(centers[h].observers)
       THEN /\ centers' = [centers EXCEPT ![h].observers = detach(@, r)]
            /\ dup' = dup \ {<<h, r>>}
            /\ attached' = [attached EXCEPT ![h] = Without(@, r)]
            /\ detached' = detached \cup {<<h, r>>}
            /\ err' = "ok"
       ELSE /\ err' = "ValueError"
            /\ UNCHANGED <<centers, dup, attached, detached>>
    /\ call' = NoCall
    /\ out' = <<>>
    /\ UNCHANGED contentVars
    /\ UNCHANGED threadVars
    /\ UNCHANGED <<instance, allocated, notification_list, notification_center,
                   reactors, refs, submitted, direct>>

\* center.set_notification(n), called on the hub itself
SetNotification(h, n, dt) ==
    /\ Commit(set_notification(Machine, h, n, dt))
    /\ direct' = (direct \/ h = notification_center)
    /\ call' = [op |-> "set_notification", hub |-> h, n |-> n,
                before |-> centers[h].observers]
    /\ UNCHANGED contentVars
    /\ UNCHANGED threadVars
    /\ UNCHANGED <<instance, allocated, notification_center, reactors, refs,
                   submitted, dup,
                   attached, detached>>

\* center.get_notification(), called on the hub itself: the text it returns
\* is the one event of the call
GetNotification(h, dt) ==
    /\ LET got == get_notification(Machine, h, dt)
       IN  /\ centers' = got.centers
           /\ err' = got.err
           /\ out' = IF got.err = "ok" THEN <<Ev("value", 0, "-", got.val)>> ELSE <<>>
    /\ call' = [op |-> "get_notification", hub |-> h, n |-> Unset,
                before |-> centers[h].observers]
    /\ UNCHANGED contentVars
    /\ UNCHANGED threadVars
    /\ UNCHANGED <<instance, allocated, notification_list, notification_center,
                   reactors, refs, submitted, dup, direct, attached, detached>>

\* center.notify(), called on the hub itself
Notify(h, dt) ==
    /\ Commit(notify(Machine, h, 1, dt))
    /\ call' = [op |-> "notify", hub |-> h, n |-> Unset,
                before |-> centers[h].observers]
    /\ UNCHANGED contentVars
    /\ UNCHANGED threadVars
    /\ UNCHANGED <<instance, allocated, notification_center, reactors, refs,
                   submitted, dup, direct,
                   attached, detached>>

\* service.send_notification(n)
SendNotification(n, dt) ==
    /\ Truthy(instance)
    /\ Len(submitted) < MaxSubmit
    /\ Commit(send_notification(Machine, notification_center, n, dt))
    /\ submitted' = Append(submitted, n)
    /\ direct' = FALSE
    /\ call' = [op |-> "send_notification", hub |-> notification_center, n |-> n,
                before |-> centers[notification_center].observers]
    /\ UNCHANGED contentVars
    /\ UNCHANGED threadVars
    /\ UNCHANGED <<instance, allocated, notification_center, reactors, refs, dup,
                   attached, detached>>

Next ==
    \/ \E r \in Reactors, ns \in Strategies : AddNotificationStrategy(r, ns)
    \/ \E h \in Hubs, r \in Reactors : Attach(h, r)
    \/ \E h \in Hubs, r \in Reactors : Detach(h, r)
    \/ \E h \in Hubs, n \in Contents, dt \in 0..1 : SetNotification(h, n, dt)
    \/ \E h \in Hubs, dt \in 0..1 : GetNotification(h, dt)
    \/ \E h \in Hubs, dt \in 0..1 : Notify(h, dt)
    \/ \E n \in Contents, dt \in 0..1 : SendNotification(n, dt)

\* The pipeline of a service constructed once
Spec == Init /\ [][Next]_vars

Loggers == { r \in Reactors : reactors[r].kind = "logger" }

\* The life of the singleton: the service constructed again and again, its
\* hubs observed by the logger
NextLifecycle ==
    \/ Construct
    \/ \E h \in Hubs, r \in Loggers : Attach(h, r)
    \/ \E h \in Hubs, r \in Loggers : Detach(h, r)
    \/ \E h \in Hubs, n \in Contents, dt \in 0..1 : SetNotification(h, n, dt)
    \/ \E n \in Contents, dt \in 0..1 : SendNotification(n, dt)

SpecLifecycle == Init /\ [][NextLifecycle]_vars

\* ------------------------------------------- a notification read on its own
Decorators == { "plain", "timestamp", "signature" }

\* NotificationDecorator(n), TimeStampDecorator(n) or SignatureDecorator(n)
Wrapped(d, n) ==
    CASE d = "plain" -> NotificationDecorator(n)
      [] d = "timestamp" -> TimeStampDecorator(n)
      [] d = "signature" -> SignatureDecorator(n)

\* Lines 194-203 have run and the pipeline stays as they left it; a
\* SimpleNotification has been made
InitContent ==
    /\ instance = NotificationService_new(None, 1)
    /\ allocated = 1
    /\ notification_list = <<>>
    /\ notification_center = 1
    /\ centers = <<NotificationCenter>>
    /\ reactors = <<NotificationLogger(1), NotificationEngine(1)>>
    /\ call = NoCall
    /\ err = "ok"
    /\ out = <<>>
    /\ refs = <<instance>>
    /\ submitted = <<>>
    /\ dup = {}
    /\ direct = FALSE
    /\ attached = <<(<<>>)>>
    /\ detached = {}
    /\ node \in { SimpleNotification(text) : text \in {"a", "b"} }
    /\ reads = <<>>
    /\ now = 0
    /\ iter = 0
    /\ att = [t \in Threads |-> None]

\* node = <Decorator>(node): one more decorator around the notification
Wrap(d) ==
    /\ Len(node.decos) < MaxDecos
    /\ node' = Wrapped(d, node)
    /\ reads' = <<>>
    /\ UNCHANGED now
    /\ UNCHANGED pipeVars
    /\ UNCHANGED threadVars

\* node.get_content(), the clock advancing by dt before each datetime.now()
Read(dt) ==
    /\ Len(reads) < MaxReads
    /\ LET r == get_content(node, Len(node.decos), now, dt)
       IN  /\ r.clk <= MaxClock
           /\ reads' = Append(reads, [text |-> r.text, at |-> now, dt |-> dt,
                                      calls |-> r.calls])
           /\ now' = r.clk
    /\ UNCHANGED node
    /\ UNCHANGED pipeVars
    /\ UNCHANGED threadVars

\* Time passes between two calls
Tick ==
    /\ now < MaxClock
    /\ now' = now + 1
    /\ UNCHANGED <<node, reads>>
    /\ UNCHANGED pipeVars
    /\ UNCHANGED threadVars

NextContent ==
    \/ \E d \in Decorators : Wrap(d)
    \/ \E dt \in 0..1 : Read(dt)
    \/ Tick

\* Notifications built and read, the pipeline left alone
SpecContent == InitContent /\ [][NextContent]_vars

\* ---------------------------------- observers that call back into the hub
\* Observers a client writes against the NotificationObserver interface

\* detaches itself in its update
SelfDetachingObserver(h) ==
    [kind |-> "leaver", notification_center |-> h, notification_strategies |-> <<>>]

\* attaches the observer `guest` in its update
AttachingObserver(h, guest) ==
    [kind |-> "inviter", notification_center |-> h, notification_strategies |-> <<>>,
     guest |-> guest]

\* sets the notification n in its update
ResettingObserver(h, n) ==
    [kind |-> "resetter", notification_center |-> h, notification_strategies |-> <<>>,
     resets_to |-> n]

\* The notification a ResettingObserver sets
Second == SignatureDecorator(SimpleNotification("a"))

\* The observers of this study, all constructed on the service's hub: two
\* loggers, an observer that detaches itself, one that attaches the second
\* logger, and one that sets Second
Cast ==
    <<NotificationLogger(1), NotificationLogger(1), SelfDetachingObserver(1),
      AttachingObserver(1, 2), ResettingObserver(1, Second)>>

\* The observer lists that attach calls can build from the cast: any of its
\* members, each at most once, in any order
Lineups ==
    { o \in UNION { [1..k -> DOMAIN Cast] : k \in 0..Len(Cast) } :
          \A i, j \in DOMAIN o : o[i] = o[j] => i = j }

\* The service constructed, the cast constructed on its hub, and some of the
\* cast attached in some order; no notification was set yet
InitReentrant ==
    /\ instance = NotificationService_new(None, 1)
    /\ allocated = 1
    /\ notification_list = <<>>
    /\ notification_center = 1
    /\ \E o \in Lineups :
           /\ centers = <<[NotificationCenter EXCEPT !.observers = o]>>
           /\ attached = <<o>>
    /\ reactors = Cast
    /\ call = NoCall
    /\ err = "ok"
    /\ out = <<>>
    /\ refs = <<instance>>
    /\ submitted = <<>>
    /\ dup = {}
    /\ direct = FALSE
    /\ detached = {}
    /\ node = Unset
    /\ reads = <<>>
    /\ now = 0
    /\ iter = 0
    /\ att = [t \in Threads |-> None]

NextReentrant ==
    \/ \E h \in Hubs, n \in Contents, dt \in 0..1 : SetNotification(h, n, dt)
    \/ \E h \in Hubs, dt \in 0..1 : Notify(h, dt)

\* The hub with observers that attach, detach and set during a round
SpecReentrant == InitReentrant /\ [][NextReentrant]_vars

\* ------------------------------------------ observers attached to a second hub
\* The logger and the engine of the setup, both constructed on the service's
\* hub, and a second hub the client made with NotificationCenter(); the engine
\* has a strategy

SharedLineups ==
    { o \in UNION { [1..k -> 1..2] : k \in 0..2 } :
          \A i, j \in DOMAIN o : o[i] = o[j] => i = j }

\* Each hub with some of the two observers attached, in some order
InitShared ==
    /\ instance = NotificationService_new(None, 1)
    /\ allocated = 1
    /\ notification_list = <<>>
    /\ notification_center = 1
    /\ \E o1, o2 \in SharedLineups :
           /\ centers = <<[NotificationCenter EXCEPT !.observers = o1],
                          [NotificationCenter EXCEPT !.observers = o2]>>
           /\ attached = <<o1, o2>>
    /\ reactors = <<NotificationLogger(1),
                    [NotificationEngine(1) EXCEPT !.notification_strategies = <<"email">>]>>
    /\ call = NoCall
    /\ err = "ok"
    /\ out = <<>>
    /\ refs = <<instance>>
    /\ submitted = <<>>
    /\ dup = {}
    /\ direct = FALSE
    /\ detached = {}
    /\ node = Unset
    /\ reads = <<>>
    /\ now = 0
    /\ iter = 0
    /\ att = [t \in Threads |-> None]

NextShared ==
    \/ \E h \in Hubs, n \in Contents, dt \in 0..1 : SetNotification(h, n, dt)
    \/ \E h \in Hubs, dt \in 0..1 : Notify(h, dt)

\* Two hubs notifying observers that were constructed on the first
SpecShared == InitShared /\ [][NextShared]_vars

\* ------------------------------------------ one hub called by several threads
\* The calls of the service's hub made from several threads, which the
\* interpreter interleaves between any two list operations: the class holds
\* no lock. One thread sets notifications, the others attach and detach.

\* center.set_notification(n) up to the start of the loop of notify
BeginSetNotification(n) ==
    /\ iter = 0
    /\ centers' = [centers EXCEPT ![notification_center].notification = n]
    /\ iter' = 1
    /\ call' = [op |-> "set_notification", hub |-> notification_center, n |-> n,
                before |-> centers[notification_center].observers]
    /\ out' = <<>>
    /\ err' = "ok"
    /\ UNCHANGED att
    /\ UNCHANGED contentVars
    /\ UNCHANGED <<instance, allocated, notification_list, notification_center,
                   reactors, refs, submitted, dup, direct, attached, detached>>

\* One turn of `for ob in self._observers: ob.update()`: the iterator compares
\* its index with the length the list has now, and the observer at that index
\* is updated; past the end, or on an exception, the loop is over
StepNotify(dt) ==
    /\ iter > 0
    /\ LET obs == centers[call.hub].observers
           after == update([Machine EXCEPT !.out = out], obs[iter], dt)
       IN  IF iter > Len(obs)
           THEN /\ iter' = 0
                /\ UNCHANGED <<out, err>>
           ELSE /\ out' = after.out
                /\ err' = after.err
                /\ iter' = IF after.err = "ok" THEN iter + 1 ELSE 0
    /\ UNCHANGED att
    /\ UNCHANGED contentVars
    /\ UNCHANGED <<instance, allocated, notification_list, notification_center,
                   centers, reactors, call, refs, submitted, dup, direct,
                   attached, detached>>

\* Thread t in attach: `if observer not in self._observers`
AttachTest(t, r) ==
    /\ att[t] = None
    /\ r \notin Range(centers[notification_center].observers)
    /\ att' = [att EXCEPT ![t] = r]
    /\ UNCHANGED iter
    /\ UNCHANGED contentVars
    /\ UNCHANGED pipeVars

\* Thread t in attach: `self._observers.append(observer)`
AttachAppend(t) ==
    /\ att[t] # None
    /\ centers' = [centers EXCEPT ![notification_center].observers = Append(@, att[t])]
    /\ att' = [att EXCEPT ![t] = None]
    /\ UNCHANGED iter
    /\ UNCHANGED contentVars
    /\ UNCHANGED <<instance, allocated, notification_list, notification_center,
                   reactors, call, err, out, refs, submitted, dup, direct,
                   attached, detached>>

\* A thread in detach: `self._observers.remove(observer)`, one list operation
\* (on an absent observer it raises in the calling thread and changes nothing)
DetachInThread(r) ==
    /\ r \in Range(centers[notification_center].observers)
    /\ centers' = [centers EXCEPT ![notification_center].observers = detach(@, r)]
    /\ UNCHANGED threadVars
    /\ UNCHANGED contentVars
    /\ UNCHANGED <<instance, allocated, notification_list, notification_center,
                   reactors, call, err, out, refs, submitted, dup, direct,
                   attached, detached>>

NextConcurrent ==
    \/ \E n \in Contents : BeginSetNotification(n)
    \/ \E dt \in 0..1 : StepNotify(dt)
    \/ \E t \in Threads, r \in Reactors : AttachTest(t, r)
    \/ \E t \in Threads : AttachAppend(t)
    \/ \E r \in Reactors : DetachInThread(r)

SpecConcurrent == Init /\ [][NextConcurrent]_vars

\* ------------------------------------------------------- reading a round
IsPrefix(s, t) == Len(s) <= Len(t) /\ SubSeq(t, 1, Len(s)) = s

Last(s) == s[Len(s)]

\* The positions of `out` holding an event of kind `kind`
At(kind) == { i \in DOMAIN out : out[i].ev = kind }

IsUpdate(e) == e.ev = "update"

\* The reactors whose update the last call invoked, in the order of invocation
Invoked ==
    LET ups == SelectSeq(out, IsUpdate)
    IN  [i \in DOMAIN ups |-> ups[i].who]

\* How often the last call invoked update of reactor r
Invocations(r) == Cardinality({ i \in At("update") : out[i].who = r })

\* The last call was a notification round on hub call.hub
Round == call.op \in {"set_notification", "notify", "send_notification"}

\* The observer list the last round walked
Walked == centers[call.hub].observers

\* Position of reactor r in the list obs (0 when absent)
Pos(obs, r) ==
    IF r \in Range(obs) THEN CHOOSE i \in DOMAIN obs : obs[i] = r ELSE 0

NoDuplicate(obs) == \A i, j \in DOMAIN obs : obs[i] = obs[j] => i = j

\* What the last call made the strategies of engine r do, in order
Handled(r) ==
    LET mine(e) == e.who = r /\ e.ev \in {"deliver", "fail"}
    IN  SelectSeq(out, mine)

\* ---------------------------------------------------------------- claims

\* C1: for a service constructed once, after N send_notification calls,
\* interleaved in any way with attach, detach and add_notification_strategy,
\* the history has length N, its i-th entry is the i-th submitted
\* notification, and a submission leaves the earlier entries as they were.
C1_HistoryAppendOnly ==
    [][ /\ notification_list = submitted
        /\ notification_list' = submitted'
        /\ IsPrefix(notification_list, notification_list') ]_vars

\* Two different notifications submitted, with an observer attached and a
\* strategy added on the way
C1_Witness ==
    /\ Len(submitted) >= 2
    /\ submitted[1] # submitted[2]
    /\ notification_list = submitted
    /\ centers[notification_center].observers # <<>>
    /\ \E r \in Reactors : reactors[r].notification_strategies # <<>>

\* C2: a reactor attached to a hub again while attached is held once in the
\* observer list, so no round invokes its update twice: a round that reaches
\* its place in the list invokes it exactly once, however often it was attached.
C2_AttachIdempotent ==
    /\ \A h \in Hubs : NoDuplicate(centers[h].observers)
    /\ Round =>
         /\ \A r \in Reactors : Invocations(r) <= 1
         /\ \A r \in Reactors :
              <<call.hub, r>> \in dup =>
                 \/ Invocations(r) = 1
                 \/ /\ err # "ok"
                    /\ Invocations(r) = 0
                    /\ Len(Invoked) < Pos(Walked, r)

\* A completed set_notification round on a hub holding a reactor that was
\* attached again while attached
C2_Witness ==
    /\ call.op = "set_notification"
    /\ err = "ok"
    /\ \E r \in Reactors : <<call.hub, r>> \in dup /\ Invocations(r) = 1

\* The last round invoked the reactors in the order of the observer list, and
\* each update had returned before the next was invoked
InOrder ==
    Round =>
      /\ IsPrefix(Invoked, Walked)
      /\ \A i, j \in At("update") :
           i < j => \E k \in At("return") : i < k /\ k < j /\ out[k].who = out[i].who

\* C3: every round invokes the attached reactors in the order of the observer
\* list, which is the order of attachment (attach puts a new reactor behind
\* all attached ones), and each update has ended before the next is invoked.
C3_NotifiedInAttachOrder ==
    [][ /\ InOrder'
        /\ \A h \in Hubs :
             Len(centers'[h].observers) > Len(centers[h].observers) =>
                /\ IsPrefix(centers[h].observers, centers'[h].observers)
                /\ Len(centers'[h].observers) = Len(centers[h].observers) + 1 ]_vars

\* A send_notification round that invoked the logger, then the engine, which
\* handed the text to a strategy
C3_Witness ==
    /\ call.op = "send_notification"
    /\ Len(Invoked) = 2
    /\ reactors[Invoked[1]].kind = "logger"
    /\ reactors[Invoked[2]].kind = "engine"
    /\ Len(Handled(Invoked[2])) >= 1

\* C4 (as claimed): when an engine's update hands the text to its strategies
\* and one of them fails, every other strategy of the engine, the ones added
\* after the failing one included, still receives the text in that update.
C4_FanOutCompletes ==
    Round =>
      \A r \in Reactors :
        (\E i \in At("fail") : out[i].who = r) =>
           Len(Handled(r)) = Len(reactors[r].notification_strategies)

\* C5 (as claimed): when a reactor's update fails during notify, every reactor
\* attached after it is still notified in that round.
C5_ReactorIsolated ==
    (Round /\ At("raise") # {}) =>
      \A r \in Range(Walked) : Invocations(r) >= 1

\* C6: a send_notification whose fan-out fails leaves the submitted
\* notification as the last entry of the history: the append comes first and
\* is not undone.
C6_AppendSurvivesFailure ==
    [][ (call'.op = "send_notification" /\ err' # "ok") =>
           notification_list' = Append(notification_list, call'.n) ]_vars

\* A send_notification ended by the exception of a failing strategy
C6_Witness ==
    /\ call.op = "send_notification"
    /\ err = "DeliveryFailure"
    /\ notification_list # <<>>
    /\ Last(notification_list) = call.n

\* C7 (as claimed): on each update the engine reads the hub's text exactly
\* once and hands that one text to every strategy, in the order they were
\* added, also when the notification holds a timestamp decorator. Stated by
\* what the strategies see: the texts one update hands over are all the same.
C7_EngineReadsOnce ==
    Round =>
      \A r \in Reactors :
        \A i, j \in DOMAIN Handled(r) : Handled(r)[i].text = Handled(r)[j].text

\* C8: every NotificationService() returns the same object, the one the first
\* call returned.
C8_SameInstance ==
    \A i \in DOMAIN refs : refs[i] = refs[1] /\ refs[i] = instance /\ Truthy(refs[i])

\* The service constructed a second time
C8_Witness ==
    /\ Len(refs) >= 2
    /\ refs[Len(refs)] = refs[1]
    /\ allocated = 1

\* C9 (as claimed): after the first construction no operation, constructing
\* again included, replaces the service's hub, removes a reactor from it
\* (other than by detach) or removes an entry of the history.
C9_NoReset ==
    [][ /\ notification_center' = notification_center
        /\ IsPrefix(notification_list, notification_list')
        /\ LET before == centers[notification_center].observers
               after == centers'[notification_center'].observers
           IN  \/ Range(before) \subseteq Range(after)
               \/ \E r \in Range(before) : after = detach(before, r) ]_vars

\* C10 (as claimed): whenever the service's hub has a current notification,
\* it is the last entry of the history.
C10_SingleWritePath ==
    centers[notification_center].notification # Unset =>
       /\ notification_list # <<>>
       /\ Last(notification_list) = centers[notification_center].notification

\* C10 (amended): whenever the service's hub has a current notification that
\* was not stored by a set_notification call made on the hub itself, it is the
\* last entry of the history.
C10_WritePathUnlessDirect ==
    (centers[notification_center].notification # Unset /\ ~direct) =>
       /\ notification_list # <<>>
       /\ Last(notification_list) = centers[notification_center].notification

\* After a second construction, a send_notification on the new hub, the old
\* hub still holding its notification
C10_Witness ==
    /\ call.op = "send_notification"
    /\ Len(centers) >= 2
    /\ ~direct
    /\ Last(notification_list) = centers[notification_center].notification
    /\ \E h \in Hubs : h # notification_center /\ centers[h].notification # Unset

\* ------------------------------------------------- reading a notification
\* The decorators of node wrapped at or outside position i that read the clock
TimestampsFrom(n, i) ==
    Cardinality({ j \in i..Len(n.decos) : n.decos[j] = "timestamp" })

\* What decorator d makes of the text of what it wraps, given the time t it read
Annotated(d, inner, t) ==
    CASE d = "plain" -> inner
      [] d = "timestamp" -> <<"<< ", ToString(t), " :: ">> \o inner
      [] d = "signature" -> inner \o <<" :: ", "signed_by: Notification Service", " >>">>

\* The innermost i decorators of n applied one after the other to n.msg, from
\* the inside out, for a read begun at clock `at` with pace dt
RECURSIVE Composed(_, _, _, _)
Composed(n, i, at, dt) ==
    IF i = 0 THEN <<n.msg>>
    ELSE Annotated(n.decos[i], Composed(n, i - 1, at, dt),
                   at + dt * TimestampsFrom(n, i))

Deterministic(n) == \A i \in DOMAIN n.decos : n.decos[i] # "timestamp"

\* C11: a notification wrapped in NotificationDecorator and SignatureDecorator
\* only (no TimeStampDecorator) reads the same at every call: every
\* get_content of it, whenever made, returns one and the same string, the one
\* fixed by the base text and the order of wrapping.
C11_OrderDeterminism ==
    Deterministic(node) =>
        \A i \in DOMAIN reads :
            /\ reads[i].text = reads[1].text
            /\ reads[i].text = Composed(node, Len(node.decos), 0, 0)

\* Two decorators, none of them a timestamp, read twice at different times
C11_Witness ==
    /\ Deterministic(node)
    /\ Len(node.decos) = 2
    /\ "signature" \in Range(node.decos)
    /\ Len(reads) = 2
    /\ reads[1].at # reads[2].at

\* C12: get_content of a SimpleNotification is its text; get_content of a
\* decorated notification is the outer decorator's annotation of the inner
\* decorator's annotation of ... of the text, so the order of wrapping is the
\* order of annotation.
C12_ComposeInsideOut ==
    \A i \in DOMAIN reads :
        /\ reads[i].text = Composed(node, Len(node.decos), reads[i].at, reads[i].dt)
        /\ node.decos = <<>> => reads[i].text = <<node.msg>>

\* A signature around a timestamp, or a timestamp around a signature, read
C12_Witness ==
    /\ Len(node.decos) = 2
    /\ Range(node.decos) = {"timestamp", "signature"}
    /\ reads # <<>>

\* The text of a notification that reads no clock
TextOf(n) == Composed(n, Len(n.decos), 0, 0)

\* What the last call made logger r print, in order
Logged(r) ==
    LET mine(e) == e.who = r /\ e.ev = "log"
    IN  SelectSeq(out, mine)

AllDeliver(r) ==
    \A i \in DOMAIN reactors[r].notification_strategies :
        ~Raises(reactors[r].notification_strategies[i])

\* C13: end to end. A notification without TimeStampDecorator is sent through
\* send_notification while one logger and one engine with k printing
\* strategies are attached to the service's hub: the logger prints exactly the
\* notification's text once, each of the k strategies is handed exactly that
\* text once, in the order they were added, and the last entry of the history
\* is the notification, whose text is that string.
C13_EndToEnd ==
    \A l, e \in Reactors :
        ( /\ call.op = "send_notification"
          /\ Deterministic(call.n)
          /\ reactors[l].kind = "logger" /\ reactors[e].kind = "engine"
          /\ Range(Walked) = {l, e}
          /\ AllDeliver(e) )
        => /\ err = "ok"
           /\ Logged(l) = <<Ev("log", l, "-", TextOf(call.n))>>
           /\ Handled(e) = [i \in DOMAIN reactors[e].notification_strategies |->
                               Ev("deliver", e, reactors[e].notification_strategies[i],
                                  TextOf(call.n))]
           /\ notification_list # <<>>
           /\ Last(notification_list) = call.n
           /\ TextOf(Last(notification_list)) = Logged(l)[1].text

\* A signed notification sent to a logger and an engine with two strategies
C13_Witness ==
    /\ call.op = "send_notification"
    /\ Deterministic(call.n) /\ call.n.decos # <<>>
    /\ Len(Walked) = 2
    /\ \E e \in Range(Walked) :
           /\ reactors[e].kind = "engine"
           /\ Len(reactors[e].notification_strategies) >= 2
           /\ AllDeliver(e)
           /\ Len(Handled(e)) >= 2
    /\ \E l \in Range(Walked) : reactors[l].kind = "logger" /\ Logged(l) # <<>>

\* C14: send_notification is synchronous and complete. When no strategy of an
\* attached engine raises, the call returns normally, and by then every
\* attached reactor was invoked exactly once and has returned, every strategy
\* of every attached engine was handed the text exactly once, and no reactor
\* that is not attached was invoked; a call that is not a notification round
\* invokes and delivers nothing, so nothing of a submission is left to happen
\* after its return.
C14_SynchronousComplete ==
    /\ ( /\ call.op = "send_notification"
         /\ \A e \in Range(Walked) : AllDeliver(e) )
       => /\ err = "ok"
          /\ \A r \in Reactors :
                 /\ Invocations(r) = (IF r \in Range(Walked) THEN 1 ELSE 0)
                 /\ Cardinality({ i \in At("return") : out[i].who = r }) = Invocations(r)
                 /\ r \in Range(Walked) /\ reactors[r].kind = "engine" =>
                        /\ Len(Handled(r)) = Len(reactors[r].notification_strategies)
                        /\ \A i \in DOMAIN Handled(r) :
                               /\ Handled(r)[i].ev = "deliver"
                               /\ Handled(r)[i].ns = reactors[r].notification_strategies[i]
                 /\ r \notin Range(Walked) => Handled(r) = <<>>
          /\ out # <<>> => Last(out).ev = "return"
    /\ call.op = "-" => out = <<>>

\* A time-stamped notification sent to two reactors, the engine with strategies
C14_Witness ==
    /\ call.op = "send_notification"
    /\ ~Deterministic(call.n)
    /\ Len(Walked) = 2
    /\ \A e \in Range(Walked) : AllDeliver(e)
    /\ \E e \in Range(Walked) : Len(Handled(e)) = MaxChannels

\* C15: detach of a reactor that is not attached has one outcome, ValueError
\* every time, and changes nothing: the hub's observer list, its stored
\* notification and the history are what they were; and the attach, detach
\* and set_notification calls made on the hub afterwards do their work.
C15_DetachAbsent ==
    [][ /\ \A h \in Hubs, r \in Reactors :
             (r \notin Range(centers[h].observers) /\ Detach(h, r))
             => /\ err' = "ValueError"
                /\ centers' = centers
                /\ notification_list' = notification_list
        /\ err' = "ValueError" => centers' = centers
        /\ err = "ValueError" =>
               /\ \A h \in Hubs, r \in Reactors :
                      /\ Attach(h, r) => r \in Range(centers'[h].observers)
                      /\ Detach(h, r) => r \notin Range(centers'[h].observers)
               /\ call'.op = "set_notification" =>
                      centers'[call'.hub].notification = call'.n ]_vars

\* A detach that raised on a hub that has an observer and a notification
C15_Witness ==
    /\ err = "ValueError"
    /\ \E h \in Hubs :
           /\ centers[h].observers # <<>>
           /\ centers[h].notification # Unset
           /\ \E r \in Reactors : r \notin Range(centers[h].observers)

\* C18: after any sequence of attach and detach calls the observer list of a
\* hub holds each reactor at most once, and holds the attached reactors in the
\* order of the attach call that last added each of them (an attach of a
\* reactor already in the list adds nothing and moves nothing).
C18_ListInAttachOrder ==
    \A h \in Hubs :
        /\ NoDuplicate(centers[h].observers)
        /\ centers[h].observers = attached[h]

\* The engine attached before the logger, and each of them attached once more
\* after the other was in the list
C18_Witness ==
    \E h \in Hubs :
        /\ centers[h].observers = <<2, 1>>
        /\ <<h, 2>> \in dup
        /\ <<h, 1>> \in dup

C17_HistoryOnlyBySubmit ==
    [][ notification_list' # notification_list =>
            /\ call'.op = "send_notification"
            /\ notification_list' = Append(notification_list, call'.n) ]_vars

\* The strings a get_content of n can return during a call that made at most
\* `calls` reads
Readings(n, calls) ==
    { Composed(n, Len(n.decos), c, d) : c \in 0..calls, d \in 0..1 }

\* C20: set_notification(c) stores c before it notifies. After the call the
\* hub holds c, and every text a reactor of that hub read from the hub during
\* the round is a reading of c, never of the notification stored before.
C20_StoredBeforeNotified ==
    call.op \in {"set_notification", "send_notification"} =>
        /\ centers[call.hub].notification = call.n
        /\ \A i \in At("read") :
               reactors[out[i].who].notification_center = call.hub =>
                   /\ out[i].text \in Readings(call.n, Len(out))
                   /\ out[i].text[IF Deterministic(call.n) THEN 1 ELSE 4] = call.n.msg

\* A second, different notification sent while reactors read the hub
C20_Witness ==
    /\ call.op = "send_notification"
    /\ Len(submitted) = 2
    /\ submitted[1] # submitted[2]
    /\ Len(notification_list) = 2
    /\ \E i, j \in At("read") : out[i].who # out[j].who

\* C16 (as claimed): with attach, detach and set_notification called on one
\* hub from several threads, no reactor is invoked more than once for one
\* set_notification, and the list is the net effect of the attach and detach
\* calls made so far: each attached reactor is in it once.
C16_ConcurrentCallsSafe ==
    /\ \A r \in Reactors : Invocations(r) <= 1
    /\ NoDuplicate(centers[notification_center].observers)

\* C21: the notification a hub holds changes only in set_notification (called
\* on the hub or by send_notification), and becomes the argument of that
\* call; attach, detach, notify, get_notification, the update of a logger or
\* of an engine and add_notification_strategy leave it as it is. The hub has
\* one slot for it and keeps no earlier notification.
C21_ContentOnlyBySet ==
    [][ \A h \in Hubs :
            /\ centers'[h].notification # centers[h].notification =>
                   /\ call'.op \in {"set_notification", "send_notification"}
                   /\ call'.hub = h
                   /\ centers'[h].notification = call'.n
            /\ call'.op \in {"-", "notify", "get_notification"} =>
                   centers'[h].notification = centers[h].notification
            /\ DOMAIN centers'[h] = {"observers", "notification"} ]_vars

\* A notify round in which the logger printed and the engine delivered what
\* the hub holds
C21_Witness ==
    /\ call.op = "notify"
    /\ err = "ok"
    /\ At("log") # {}
    /\ At("deliver") # {}
    /\ centers[call.hub].notification \in Contents

\* C22: add_notification_strategy appends to the engine's list and makes no
\* test for duplicates; an update of an engine with k entries that returns
\* has made exactly k deliveries, entry by entry in the order of registration,
\* so a strategy registered m times is handed the text m times.
C22_DuplicateChannels ==
    /\ [][ \A r \in Reactors, ns \in Strategies :
             AddNotificationStrategy(r, ns) =>
                 reactors'[r].notification_strategies =
                     Append(reactors[r].notification_strategies, ns) ]_vars
    /\ [](\A r \in Reactors :
            (reactors[r].kind = "engine" /\ \E i \in At("return") : out[i].who = r) =>
                LET entries == reactors[r].notification_strategies
                IN  /\ Len(Handled(r)) = Len(entries)
                    /\ \A i \in DOMAIN entries :
                           /\ Handled(r)[i].ev = "deliver"
                           /\ Handled(r)[i].ns = entries[i]
                    /\ \A ns \in Strategies :
                           Cardinality({ i \in DOMAIN Handled(r) : Handled(r)[i].ns = ns })
                               = Cardinality({ i \in DOMAIN entries : entries[i] = ns }))

\* An engine to which one strategy was added MaxChannels times, updated
C22_Witness ==
    \E r \in Reactors :
        /\ Len(reactors[r].notification_strategies) = MaxChannels
        /\ \A i \in DOMAIN reactors[r].notification_strategies :
               reactors[r].notification_strategies[i] = "email"
        /\ Len(Handled(r)) = MaxChannels
        /\ \E i \in At("return") : out[i].who = r

\* C23: a get_content call on a chain of d decorators enters the get_content
\* of each decorator once and that of the SimpleNotification once: each
\* decorator calls the get_content of what it wraps exactly once, from the
\* outermost inwards.
C23_WrappedReadOnce ==
    \A i \in DOMAIN reads :
        LET d == Len(node.decos)
        IN  /\ reads[i].calls = [j \in 1..(d + 1) |-> d + 1 - j]
            /\ \A level \in 0..d :
                   Cardinality({ j \in DOMAIN reads[i].calls : reads[i].calls[j] = level }) = 1

\* A signature around a plain decorator, read once
C23_Witness ==
    /\ node.decos = <<"plain", "signature">>
    /\ Len(reads) = 1

\* C24: wrapping and reading leave the wrapped objects as they were and keep
\* the chain simple. A constructor call adds one object around the chain, and
\* every object of the chain reads afterwards, at any clock, what it read
\* before; a get_content call changes no object; and a read goes from the
\* object read inwards, one object after the other, each wrapping exactly
\* one, down to the SimpleNotification, without coming to an object twice.
C24_WrappedUntouched ==
    [][ /\ node' # node =>
               /\ Len(node'.decos) = Len(node.decos) + 1
               /\ \A level \in 0..Len(node.decos), clk \in 0..MaxClock, dt \in 0..1 :
                      get_content(node', level, clk, dt) = get_content(node, level, clk, dt)
        /\ reads' # reads /\ reads' # <<>> =>
               LET calls == Last(reads').calls
               IN  /\ node' = node
                   /\ calls[1] = Len(node.decos)
                   /\ Last(calls) = 0
                   /\ \A j \in 1..(Len(calls) - 1) : calls[j + 1] = calls[j] - 1 ]_vars

\* The longest chain, a timestamp innermost, read as often as can be
C24_Witness ==
    /\ Len(node.decos) = MaxDecos
    /\ node.decos[1] = "timestamp"
    /\ Len(reads) = MaxReads

\* The outermost decorator of node is a TimeStampDecorator
Stamped == node.decos # <<>> /\ Last(node.decos) = "timestamp"

\* The time a read of node put in front, and the part of the text that the
\* wrapped notification produced
StampOf(r) == r.text[2]

WrappedPart(r) == SubSeq(r.text, 4, Len(r.text))

\* The notification the outermost decorator of node wraps
WrappedNode == [node EXCEPT !.decos = SubSeq(@, 1, Len(@) - 1)]

\* C25 (as claimed): TimeStampDecorator keeps no time. Every get_content of a
\* notification whose outermost decorator is a TimeStampDecorator carries the
\* clock value of that call, so two reads at different clock values differ in
\* their timestamps, while the part of the string that the wrapped
\* notification produced is the same in both.
C25_FreshTimestamp ==
    Stamped =>
        \A i, j \in DOMAIN reads :
            /\ StampOf(reads[i]) = ToString(reads[i].at + reads[i].dt)
            /\ reads[i].at + reads[i].dt # reads[j].at + reads[j].dt
                   => StampOf(reads[i]) # StampOf(reads[j])
            /\ WrappedPart(reads[i]) = WrappedPart(reads[j])

\* C25 (amended): as above, the part produced by the wrapped notification
\* being the same in both reads when the wrapped notification has no
\* TimeStampDecorator of its own; in every case it is what the wrapped
\* notification reads at the time the outer decorator calls it.
C25_FreshTimestampOverFixedText ==
    Stamped =>
        \A i, j \in DOMAIN reads :
            /\ StampOf(reads[i]) = ToString(reads[i].at + reads[i].dt)
            /\ reads[i].at + reads[i].dt # reads[j].at + reads[j].dt
                   => StampOf(reads[i]) # StampOf(reads[j])
            /\ Deterministic(WrappedNode) => WrappedPart(reads[i]) = WrappedPart(reads[j])
            /\ WrappedPart(reads[i]) =
                   Composed(WrappedNode, Len(WrappedNode.decos),
                            reads[i].at + reads[i].dt, reads[i].dt)

\* A timestamp around a signed notification, read at two different times
C25_Witness ==
    /\ node.decos = <<"signature", "timestamp">>
    /\ Len(reads) = 2
    /\ reads[1].at + reads[1].dt # reads[2].at + reads[2].dt
    /\ StampOf(reads[1]) # StampOf(reads[2])

\* Reactor r reads hub h in its update: a logger, or an engine that has a
\* strategy, constructed on h
ReadsHub(r, h) ==
    /\ reactors[r].notification_center = h
    /\ \/ reactors[r].kind = "logger"
       \/ reactors[r].kind = "engine" /\ reactors[r].notification_strategies # <<>>

\* C26: a hub holds no notification before its first set_notification. On
\* such a hub get_notification ends in an error (AttributeError), and so does
\* notify when a logger, or an engine that has a strategy, is attached;
\* nothing is printed or delivered, and the observer list is what it was
\* before the failed call.
C26_UnsetHubRaises ==
    LET unset == centers[call.hub].notification = Unset
    IN  /\ (call.op = "get_notification" /\ unset) =>
               /\ err = "AttributeError"
               /\ out = <<>>
               /\ Walked = call.before
        /\ (call.op = "notify" /\ unset /\ \E r \in Range(call.before) : ReadsHub(r, call.hub)) =>
               /\ err = "AttributeError"
               /\ At("log") = {} /\ At("deliver") = {} /\ At("read") = {}
               /\ Walked = call.before
        /\ (call.op = "get_notification" /\ ~unset) => err = "ok"

\* notify on a hub that was never given a notification, the engine with a
\* strategy and the logger attached
C26_Witness ==
    /\ call.op = "notify"
    /\ centers[call.hub].notification = Unset
    /\ Len(call.before) = 2
    /\ \A r \in Range(call.before) : ReadsHub(r, call.hub)
    /\ err = "AttributeError"

\* ------------------------------------------- rounds with calls back
Kind(r) == reactors[r].kind

\* The last call was a round started by a client on the observer list call.before
ClientRound == call.op \in {"notify", "set_notification"}

\* The reactors updated in the stretch `events` of out, in order
Updated(events) ==
    LET ups == SelectSeq(events, IsUpdate)
    IN  [i \in DOMAIN ups |-> ups[i].who]

\* C27: an observer that detaches itself in its update makes the round skip
\* the observer that followed it in the list: the follower is not invoked in
\* that round, stays attached, and is invoked by later rounds, which invoke
\* every observer of a list that nobody changes.
C27_SelfDetachSkipsNext ==
    /\ \A l \in Reactors :
           ( /\ Kind(l) = "leaver"
             /\ ClientRound
             /\ l \in Range(call.before)
             /\ Invocations(l) >= 1
             /\ \A r \in Range(call.before) : Kind(r) # "resetter"
             /\ Pos(call.before, l) < Len(call.before) )
           => LET follower == call.before[Pos(call.before, l) + 1]
              IN  /\ Invocations(follower) = 0
                  /\ follower \in Range(Walked)
                  /\ l \notin Range(Walked)
    /\ ( /\ ClientRound
         /\ err = "ok"
         /\ \A r \in Range(call.before) : Kind(r) = "logger" )
       => /\ Invoked = call.before
          /\ Walked = call.before

\* A logger, the self-detaching observer and the other logger: the first
\* logger printed, the second was passed over and is still attached
C27_Witness ==
    /\ ClientRound
    /\ call.before = <<1, 3, 2>>
    /\ err = "ok"
    /\ Invoked = <<1, 3>>
    /\ Walked = <<1, 2>>

\* C28: an observer attached by the update of another while notify iterates
\* is invoked in that same round, after all observers that were in the list
\* when the round began.
C28_AttachedDuringRound ==
    \A a \in Reactors :
        ( /\ Kind(a) = "inviter"
          /\ ClientRound
          /\ err = "ok"
          /\ a \in Range(call.before)
          /\ reactors[a].guest \notin Range(call.before)
          /\ \A r \in Range(call.before) : Kind(r) \notin {"leaver", "resetter"} )
        => /\ Walked = Append(call.before, reactors[a].guest)
           /\ Invoked = Append(call.before, reactors[a].guest)

\* The attaching observer between nothing and a logger: its guest is invoked
\* last, in the round that attached it
C28_Witness ==
    /\ ClientRound
    /\ call.before = <<4, 1>>
    /\ err = "ok"
    /\ Invoked = <<4, 1, 2>>
    /\ At("log") # {}

\* C29: an observer that calls set_notification(Second) in its update during
\* the round of set_notification(c1) starts a nested round, which runs to its
\* end over the whole list before the outer round goes on. The observers
\* behind it in the list are invoked twice, once by each round, and read
\* Second both times, never c1; the hub is left holding Second.
C29_NestedSetNotification ==
    \A s \in Reactors :
        ( /\ Kind(s) = "resetter"
          /\ call.op = "set_notification"
          /\ call.n # reactors[s].resets_to
          /\ err = "ok"
          /\ s \in Range(call.before)
          /\ \A r \in Range(call.before) \ {s} : Kind(r) = "logger" )
        => LET p == Pos(call.before, s)
               mine == { i \in DOMAIN out : out[i].who = s }
               enter == CHOOSE i \in mine : \A j \in mine : i <= j
               leave == CHOOSE i \in mine : \A j \in mine : j <= i
           IN  /\ centers[call.hub].notification = reactors[s].resets_to
               /\ Updated(SubSeq(out, 1, enter - 1)) = SubSeq(call.before, 1, p - 1)
               /\ Updated(SubSeq(out, enter + 1, leave - 1)) = call.before
               /\ Updated(SubSeq(out, leave + 1, Len(out))) =
                      SubSeq(call.before, p + 1, Len(call.before))
               /\ \A q \in Range(SubSeq(call.before, p + 1, Len(call.before))) :
                      /\ Invocations(q) = 2
                      /\ Cardinality({ i \in At("read") : out[i].who = q }) = 2
                      /\ \A i \in At("read") :
                             out[i].who = q => out[i].text = TextOf(reactors[s].resets_to)

\* A logger, the setting observer and the other logger, and a notification
\* that is not Second set: the second logger printed Second twice
C29_Witness ==
    /\ call.op = "set_notification"
    /\ call.n # Second
    /\ call.before = <<1, 5, 2>>
    /\ err = "ok"
    /\ Invocations(2) = 2
    /\ Invocations(1) = 2

\* C30: an observer reads the hub it was constructed on, whichever hub
\* notifies it. In the round of set_notification(c) on a hub, every text a
\* logger or an engine reads is a reading of what the hub of its constructor
\* holds; attached to another hub, it prints or delivers that, not c, and its
\* update raises when the hub of its constructor holds nothing.
C30_ReadsOwnHub ==
    call.op = "set_notification" =>
        \A r \in Reactors :
            LET own == reactors[r].notification_center
                held == centers[own].notification
                texts == { out[i].text : i \in { j \in DOMAIN out : out[j].who = r /\
                                                   out[j].ev \in {"read", "log", "deliver"} } }
            IN  /\ held # Unset => texts \subseteq Readings(held, Len(out))
                /\ held = Unset => texts = {}
                /\ (held = Unset /\ Invocations(r) > 0) =>
                       /\ err = "AttributeError"
                       /\ Last(out) = Ev("raise", r, "-", <<>>)
                /\ (own # call.hub /\ held # call.n) =>
                       texts \cap Readings(call.n, Len(out)) = {}

\* The second hub was given a notification while the first holds another:
\* the logger printed and the engine delivered what the first hub holds
C30_Witness ==
    /\ call.op = "set_notification"
    /\ call.hub = 2
    /\ Len(call.before) = 2
    /\ centers[1].notification \in Contents \ {call.n}
    /\ err = "ok"
    /\ \E i \in At("log") : out[i].text \in Readings(centers[1].notification, Len(out))
    /\ \E i \in At("deliver") : out[i].text \in Readings(centers[1].notification, Len(out))

====
